---- MODULE Spec2Model ----
(***************************************************************************)
(* Grapheme-cluster iteration of StringUtils (src/src/stringutils.js).     *)
(*                                                                         *)
(* A text is a sequence of 16-bit code units; offsets are 0-based code     *)
(* unit indices as in JavaScript, so the code unit at offset o is          *)
(* text[o + 1].  The StringUtils wrappers are translated from the source;  *)
(* the GraphemeBreaker library they call (libs/grapheme-breaker-mjs-mod)   *)
(* is modelled from its specification: decoder, classifier, boundary       *)
(* engine and the four iteration operations.  The text-editing operations  *)
(* splice, truncateTextByRanges, format and resolvePlaceholder are         *)
(* translated from the source as well.                                     *)
(***************************************************************************)
EXTENDS Integers, Sequences, FiniteSets, TLC

VARIABLES text, op, arg, retOffset, retText, retList, prevOp, prevArg, fwd, bwd,
          args, ranges, retWidth

vars ==
    <<text, op, arg, retOffset, retText, retList, prevOp, prevArg, fwd, bwd,
      args, ranges, retWidth>>

(***************************************************************************)
(* Bounds of the model.                                                    *)
(***************************************************************************)
\* Longest enumerated text, counted in pieces (a piece is one code unit or
\* one surrogate pair).
MaxPieces == 3

\* Offsets handed to the operations range up to Len(text) + OffsetSlack.
OffsetSlack == 2

\* Longest enumerated run of regional indicators.
MaxIndicatorRun == 5

\* Longest enumerated text of the boundary rules, counted in code points.
MaxRulePieces == 3

\* Longest enumerated run of Extend code points before a ZWJ.
MaxExtendRun == 2

\* Longest enumerated text handed to the decoder, in code units.
MaxDecodeLen == 3

\* Longest enumerated text handed to splice and truncateTextByRanges.
MaxEditLen == 3

\* Longest enumerated array of ranges.
MaxRanges == 3

\* Largest rangeOffset, to the left and to the right.
MaxRangeOffset == 1

\* Longest enumerated text handed to format, counted in pieces (a piece is
\* a specifier or one code unit).
MaxFormatPieces == 4

\* Longest enumerated list of values handed to format.
MaxValues == 2

\* Longest enumerated text handed to resolvePlaceholder, counted in pieces
\* (a piece is '${' or one code unit).
MaxPlaceholderPieces == 5

(***************************************************************************)
(* Code-unit decoder.                                                      *)
(***************************************************************************)
IsHighSurrogate(u) == u >= 55296 /\ u <= 56319      \* 0xD800..0xDBFF

IsLowSurrogate(u) == u >= 56320 /\ u <= 57343       \* 0xDC00..0xDFFF

\* The code unit at a 0-based offset.
charCodeAt(s, o) == s[o + 1]

\* Forward decoder: does a surrogate pair begin at offset o ?
IsPairAt(s, o) ==
    /\ o >= 0
    /\ o + 1 < Len(s)
    /\ IsHighSurrogate(charCodeAt(s, o))
    /\ IsLowSurrogate(charCodeAt(s, o + 1))

\* Backward decoder: does a surrogate pair end just before offset o ?
IsPairBefore(s, o) == o >= 2 /\ IsPairAt(s, o - 2)

\* Width (1 or 2) of the code point that begins at offset o.
codePointWidth(s, o) == IF IsPairAt(s, o) THEN 2 ELSE 1

\* Scalar value of the code point that begins at offset o.
codePointAt(s, o) ==
    IF IsPairAt(s, o)
    THEN 65536 + (charCodeAt(s, o) - 55296) * 1024 + (charCodeAt(s, o + 1) - 56320)
    ELSE charCodeAt(s, o)

\* No code point: the offset is outside the text (end of input).
NoCodePoint == [cp |-> -1, len |-> 0]

\* Variant that pairs a high surrogate with whatever code unit follows it.
decode_anyFollower(s, o) ==
    IF o < 0 \/ o >= Len(s) THEN NoCodePoint
    ELSE IF IsHighSurrogate(charCodeAt(s, o)) /\ o + 1 < Len(s)
    THEN [cp |-> 65536 + (charCodeAt(s, o) - 55296) * 1024
                     + (charCodeAt(s, o + 1) - 56320),
          len |-> 2]
    ELSE [cp |-> charCodeAt(s, o), len |-> 1]

\* Forward decoder: the code point that begins at offset o and its width.
decode(s, o) ==
    IF o < 0 \/ o >= Len(s) THEN NoCodePoint
    ELSE [cp |-> codePointAt(s, o), len |-> codePointWidth(s, o)]

(***************************************************************************)
(* Break-property classifier: inclusive range tables, default Other.       *)
(***************************************************************************)
ControlTable == << <<0, 9>>, <<11, 12>>, <<14, 31>>, <<127, 159>> >>

ExtendTable == << <<768, 879>>, <<65024, 65039>>, <<127995, 127999>> >>

SpacingMarkTable == << <<2307, 2307>> >>

PrependTable == << <<1536, 1541>> >>

RegionalIndicatorTable == << <<127462, 127487>> >>

ExtendedPictographicTable ==
    << <<9792, 9792>>, <<9794, 9794>>, <<126976, 127231>>, <<127744, 127994>>,
       <<128000, 128591>>, <<129292, 129338>> >>

HangulLTable == << <<4352, 4447>> >>

HangulVTable == << <<4448, 4519>> >>

HangulTTable == << <<4520, 4607>> >>

HangulSyllableTable == << <<44032, 55203>> >>

InTable(cp, table) ==
    \E k \in 1..Len(table) : cp >= table[k][1] /\ cp <= table[k][2]

getBreakCategory(cp) ==
    IF cp = 13 THEN "CR"
    ELSE IF cp = 10 THEN "LF"
    ELSE IF InTable(cp, ControlTable) THEN "Control"
    ELSE IF cp = 8205 THEN "ZeroWidthJoiner"
    ELSE IF InTable(cp, ExtendTable) THEN "Extend"
    ELSE IF InTable(cp, SpacingMarkTable) THEN "SpacingMark"
    ELSE IF InTable(cp, PrependTable) THEN "Prepend"
    ELSE IF InTable(cp, RegionalIndicatorTable) THEN "RegionalIndicator"
    ELSE IF InTable(cp, ExtendedPictographicTable) THEN "ExtendedPictographic"
    ELSE IF InTable(cp, HangulLTable) THEN "L"
    ELSE IF InTable(cp, HangulVTable) THEN "V"
    ELSE IF InTable(cp, HangulTTable) THEN "T"
    ELSE IF InTable(cp, HangulSyllableTable)
         THEN (IF (cp - 44032) % 28 = 0 THEN "LV" ELSE "LVT")
    ELSE "Other"

(***************************************************************************)
(* Boundary engine.                                                        *)
(***************************************************************************)
RECURSIVE decodeFrom(_, _)
\* The (code point, category, code-unit length, code-unit offset) tuples of
\* the text from offset o to its end.
decodeFrom(s, o) ==
    IF o >= Len(s) THEN << >>
    ELSE << [cp  |-> codePointAt(s, o),
             cat |-> getBreakCategory(codePointAt(s, o)),
             len |-> codePointWidth(s, o),
             off |-> o] >> \o decodeFrom(s, o + codePointWidth(s, o))

codePoints(s) == decodeFrom(s, 0)

RECURSIVE endsInPictographic(_, _)
\* Scanning backward from element i through Extend code points ends at an
\* ExtendedPictographic code point.
endsInPictographic(cps, i) ==
    IF i < 1 THEN FALSE
    ELSE IF cps[i].cat = "Extend" THEN endsInPictographic(cps, i - 1)
    ELSE cps[i].cat = "ExtendedPictographic"

RECURSIVE regionalIndicatorRun(_, _)
\* Number of consecutive RegionalIndicator code points that end at element i.
regionalIndicatorRun(cps, i) ==
    IF i < 1 THEN 0
    ELSE IF cps[i].cat = "RegionalIndicator" THEN 1 + regionalIndicatorRun(cps, i - 1)
    ELSE 0

hangulNoBreak(a, b) ==
    \/ a = "L" /\ b \in {"L", "V", "LV"}
    \/ a \in {"LV", "V"} /\ b \in {"V", "T"}
    \/ a \in {"LVT", "T"} /\ b = "T"

\* Is there a boundary between element i and element i + 1 ?  Rules in
\* priority order, the first that matches decides.
shouldBreak(cps, i) ==
    LET a == cps[i].cat
        b == cps[i + 1].cat
    IN  IF a = "CR" /\ b = "LF" THEN FALSE
        ELSE IF b \in {"Extend", "ZeroWidthJoiner", "SpacingMark"} THEN FALSE
        ELSE IF a = "Prepend" THEN FALSE
        ELSE IF hangulNoBreak(a, b) THEN FALSE
        ELSE IF a = "ZeroWidthJoiner" /\ b = "ExtendedPictographic"
                /\ endsInPictographic(cps, i - 1) THEN FALSE
        ELSE IF a = "RegionalIndicator" /\ b = "RegionalIndicator"
                /\ regionalIndicatorRun(cps, i) % 2 = 1 THEN FALSE
        ELSE TRUE

(***************************************************************************)
(* Iteration API of the GraphemeBreaker library.                           *)
(***************************************************************************)
\* Index of the decoded element that holds the code unit at offset o.
elementAt(cps, o) ==
    CHOOSE k \in 1..Len(cps) : cps[k].off <= o /\ o < cps[k].off + cps[k].len

RECURSIVE scanForward(_, _, _)
\* Offset of the first boundary after element i; n is the text's length.
scanForward(cps, i, n) ==
    IF i >= Len(cps) THEN n
    ELSE IF shouldBreak(cps, i) THEN cps[i + 1].off
    ELSE scanForward(cps, i + 1, n)

RECURSIVE scanBackward(_, _)
\* Offset of the last boundary at or before the start of element i.
scanBackward(cps, i) ==
    IF i <= 1 THEN 0
    ELSE IF shouldBreak(cps, i - 1) THEN cps[i].off
    ELSE scanBackward(cps, i - 1)

nextBreak(s, offset) ==
    IF offset >= Len(s) THEN Len(s)
    ELSE IF offset < 0 THEN 0
    ELSE LET cps == codePoints(s)
         IN  scanForward(cps, elementAt(cps, offset), Len(s))

previousBreak(s, offset) ==
    IF offset <= 0 THEN 0
    ELSE IF offset > Len(s) THEN Len(s)
    ELSE LET cps == codePoints(s)
         IN  scanBackward(cps, elementAt(cps, offset - 1))

RECURSIVE breakFrom(_, _)
\* The clusters of s from offset index on, by repeated nextBreak.
breakFrom(s, index) ==
    IF index >= Len(s) THEN << >>
    ELSE << SubSeq(s, index + 1, nextBreak(s, index)) >>
         \o breakFrom(s, nextBreak(s, index))

break(s) == breakFrom(s, 0)

RECURSIVE countFrom(_, _)
\* Number of boundary advancements from offset index to the end of s.
countFrom(s, index) ==
    IF index >= Len(s) THEN 0 ELSE 1 + countFrom(s, nextBreak(s, index))

isAsciiOnly(s) == \A k \in 1..Len(s) : s[k] <= 127

\* shortCircuit: whether this implementation takes the ASCII-only shortcut
\* that the library's specification allows.
countBreaks(s, shortCircuit) ==
    IF shortCircuit /\ isAsciiOnly(s) THEN Len(s) ELSE countFrom(s, 0)

(***************************************************************************)
(* StringUtils (src/src/stringutils.js).                                   *)
(***************************************************************************)
clamp(x, n) == IF x < 0 THEN 0 ELSE IF x > n THEN n ELSE x

\* String.prototype.substring: both indices are clamped to 0..length and
\* swapped when the first is the larger.
substring(s, a, b) ==
    LET ca == clamp(a, Len(s))
        cb == clamp(b, Len(s))
    IN  IF ca <= cb THEN SubSeq(s, ca + 1, cb) ELSE SubSeq(s, cb + 1, ca)

\* Variant that steps over one code point instead of one cluster.
getNextUnicodeOffset_byCodePoint(s, offset) ==
    IF offset >= Len(s) THEN Len(s) ELSE offset + codePointWidth(s, offset)

\* Variant that starts the search one code unit too far.
getNextUnicodeOffset_offByOne(s, offset) == nextBreak(s, offset + 1)

\* Variant that steps past the end of the text instead of stopping there.
getNextUnicodeOffset_unclamped(s, offset) ==
    IF offset >= Len(s) THEN offset + 1 ELSE nextBreak(s, offset)

\* Variant that starts the search one code unit too early.
getNextUnicodeOffset_startsBefore(s, offset) == nextBreak(s, offset - 1)

getNextUnicodeOffset(s, offset) == nextBreak(s, offset)

\* Variant that returns the code point at offset instead of the cluster.
getNextUnicodeChar_byCodePoint(s, offset) ==
    substring(s, offset, offset + codePointWidth(s, offset))

getNextUnicodeChar(s, offset) == substring(s, offset, nextBreak(s, offset))

\* Variant that steps back over one code point instead of one cluster.
getPreviousUnicodeOffset_byCodePoint(s, offset) ==
    IF offset <= 0 THEN 0
    ELSE IF offset > Len(s) THEN Len(s)
    ELSE IF IsPairBefore(s, offset) THEN offset - 2
    ELSE offset - 1

\* Variant that clamps the offset to the text before searching.
getPreviousUnicodeOffset_clampFirst(s, offset) ==
    previousBreak(s, clamp(offset, Len(s)))

getPreviousUnicodeOffset(s, offset) == previousBreak(s, offset)

\* Variant that returns the code point before offset instead of the cluster.
getPreviousUnicodeChar_byCodePoint(s, offset) ==
    substring(s, getPreviousUnicodeOffset_byCodePoint(s, offset), offset)

getPreviousUnicodeChar(s, offset) == substring(s, previousBreak(s, offset), offset)

\* Variant that loses the last cluster.
splitIntoUnicodeChar_dropsLast(s) == SubSeq(break(s), 1, Len(break(s)) - 1)

\* Variant that splits into code points instead of clusters.
splitIntoUnicodeChar_byCodePoint(s) ==
    [ k \in 1..Len(codePoints(s)) |->
        SubSeq(s, codePoints(s)[k].off + 1, codePoints(s)[k].off + codePoints(s)[k].len) ]

splitIntoUnicodeChar(s) == break(s)

countUnicodeChars(s, shortCircuit) == countBreaks(s, shortCircuit)

(***************************************************************************)
(* StringUtils: text editing.                                              *)
(***************************************************************************)
\* A value of JavaScript that is undefined, null, a string or an integer.
Undefined == [kind |-> "undefined", str |-> << >>, num |-> 0]

Null == [kind |-> "null", str |-> << >>, num |-> 0]

Str(s) == [kind |-> "string", str |-> s, num |-> 0]

Num(n) == [kind |-> "number", str |-> << >>, num |-> n]

\* No further arguments of a call.
NoArgs ==
    [ startIndex |-> 0, deleteCount |-> 0, addText |-> Undefined,
      rangesBefore |-> << >>, rangeOffset |-> 0, values |-> << >>,
      resolved |-> {} ]

RECURSIVE digitsOf(_)
\* The decimal digits of a non-negative integer, as code units.
digitsOf(n) ==
    IF n < 10 THEN << 48 + n >> ELSE Append(digitsOf(n \div 10), 48 + (n % 10))

\* The string join('') makes of one item: a string is taken as it is, an
\* integer in decimal notation, undefined and null as the empty string.
toJoinedString(v) ==
    CASE v.kind = "string" -> v.str
      [] v.kind = "number" ->
            (IF v.num < 0 THEN << 45 >> \o digitsOf(-v.num) ELSE digitsOf(v.num))
      [] OTHER -> << >>

RECURSIVE join(_)
\* Array.prototype.join(''): the strings of the items in order.
join(items) ==
    IF items = << >> THEN << >>
    ELSE toJoinedString(Head(items)) \o join(Tail(items))

\* Variant that keeps the code units from offset deleteCount on instead of
\* from startIndex + deleteCount on.
splice_tailFromDeleteCount(s, startIndex, deleteCount, addText) ==
    LET head == << Str(substring(s, 0, startIndex)) >>
        added == IF addText # Undefined /\ addText # Null /\ addText # Str(<< >>)
                 THEN Append(head, addText) ELSE head
    IN  join(Append(added, Str(substring(s, deleteCount, Len(s)))))

splice(s, startIndex, deleteCount, addText) ==
    LET head == << Str(substring(s, 0, startIndex)) >>
        added == IF addText # Undefined /\ addText # Null /\ addText # Str(<< >>)
                 THEN Append(head, addText) ELSE head
    IN  join(Append(added, Str(substring(s, startIndex + deleteCount, Len(s)))))

\* One step of the sort: r put behind every range of the sorted list whose
\* start is not greater than its own.
insertRange(sorted, r) ==
    LET n == Cardinality({ k \in 1..Len(sorted) : sorted[k].start <= r.start })
    IN  SubSeq(sorted, 1, n) \o << r >> \o SubSeq(sorted, n + 1, Len(sorted))

\* Variant of a sort without the comparator: the ranges compare equal as
\* strings and stay in the order of the array.
sortRanges_noComparator(rs) == rs

RECURSIVE sortRanges(_)
\* ranges.sort((left, right) => left.start - right.start): ascending by
\* start, ranges of equal start in their order of the array.
sortRanges(rs) ==
    IF rs = << >> THEN << >>
    ELSE insertRange(sortRanges(SubSeq(rs, 1, Len(rs) - 1)), rs[Len(rs)])

RECURSIVE truncateLoop(_, _, _, _)
\* The loop of truncateTextByRanges, from the range at 1-based position
\* idx down to the first.
truncateLoop(s, sorted, idx, rangeOffset) ==
    IF idx < 1 THEN s
    ELSE truncateLoop(
             splice(s, sorted[idx].start + rangeOffset,
                    sorted[idx].end - sorted[idx].start, Undefined),
             sorted, idx - 1, rangeOffset)

RECURSIVE truncateLoop_ascending(_, _, _, _)
\* Variant of the loop that goes from the range at position idx up to the
\* last.
truncateLoop_ascending(s, sorted, idx, rangeOffset) ==
    IF idx > Len(sorted) THEN s
    ELSE truncateLoop_ascending(
             splice(s, sorted[idx].start + rangeOffset,
                    sorted[idx].end - sorted[idx].start, Undefined),
             sorted, idx + 1, rangeOffset)

\* Variant that cuts the ranges out from the first to the last.
truncateTextByRanges_ascending(s, rs, rangeOffset) ==
    truncateLoop_ascending(s, sortRanges(rs), 1, rangeOffset)

truncateTextByRanges(s, rs, rangeOffset) ==
    truncateLoop(s, sortRanges(rs), Len(rs), rangeOffset)

\* stringFormatSpecifierPattern '%[sd]' matches at offset o of s.
isSpecifierAt(s, o) ==
    /\ o >= 0
    /\ o + 1 < Len(s)
    /\ charCodeAt(s, o) = 37                    \* '%'
    /\ charCodeAt(s, o + 1) \in {115, 100}      \* 's', 'd'

\* placeholderExp.exec(text) with lastIndex: index of the first match at or
\* after lastIndex, -1 for null.
execSpecifier(s, lastIndex) ==
    LET found == { o \in lastIndex..(Len(s) - 2) : isSpecifierAt(s, o) }
    IN  IF found = {} THEN -1 ELSE CHOOSE o \in found : \A p \in found : o <= p

RECURSIVE formatLoop_sameValue(_, _, _, _, _, _)
\* Variant of the loop that never advances idx.
formatLoop_sameValue(s, values, index, bufferPos, idx, buffer) ==
    IF index = -1
    THEN join(IF bufferPos < Len(s)
                    THEN Append(buffer, Str(substring(s, bufferPos, Len(s))))
                    ELSE buffer)
    ELSE LET gap == IF index # bufferPos
                    THEN Append(buffer, Str(substring(s, bufferPos, index)))
                    ELSE buffer
             pushed == IF idx < Len(values) THEN Append(gap, values[idx + 1]) ELSE gap
         IN  formatLoop_sameValue(s, values, execSpecifier(s, index + 2),
                                  index + 2, idx, pushed)

RECURSIVE formatLoop_keepsSpecifier(_, _, _, _, _, _)
\* Variant of the loop that keeps a specifier for which no value is left.
formatLoop_keepsSpecifier(s, values, index, bufferPos, idx, buffer) ==
    IF index = -1
    THEN join(IF bufferPos < Len(s)
                    THEN Append(buffer, Str(substring(s, bufferPos, Len(s))))
                    ELSE buffer)
    ELSE LET gap == IF index # bufferPos
                    THEN Append(buffer, Str(substring(s, bufferPos, index)))
                    ELSE buffer
             pushed == IF idx < Len(values)
                       THEN Append(gap, values[idx + 1])
                       ELSE Append(gap, Str(substring(s, index, index + 2)))
             nextIdx == IF idx < Len(values) THEN idx + 1 ELSE idx
         IN  formatLoop_keepsSpecifier(s, values, execSpecifier(s, index + 2),
                                       index + 2, nextIdx, pushed)

RECURSIVE formatLoop(_, _, _, _, _, _)
\* The while loop of format and the statements after it; index is the
\* index of the current match (-1: result is null), the length of a match
\* is 2.
formatLoop(s, values, index, bufferPos, idx, buffer) ==
    IF index = -1
    THEN join(IF bufferPos < Len(s)
                    THEN Append(buffer, Str(substring(s, bufferPos, Len(s))))
                    ELSE buffer)
    ELSE LET gap == IF index # bufferPos
                    THEN Append(buffer, Str(substring(s, bufferPos, index)))
                    ELSE buffer
             gapPos == index
             pushed == IF idx < Len(values) THEN Append(gap, values[idx + 1]) ELSE gap
             nextIdx == IF idx < Len(values) THEN idx + 1 ELSE idx
         IN  formatLoop(s, values, execSpecifier(s, index + 2),
                        gapPos + 2, nextIdx, pushed)

\* Variant that keeps the specifiers behind the last value.
format_keepsSpecifier(s, values) ==
    formatLoop_keepsSpecifier(s, values, execSpecifier(s, 0), 0, 0, << >>)

\* Variant that puts the first value in the place of every specifier.
format_sameValue(s, values) ==
    formatLoop_sameValue(s, values, execSpecifier(s, 0), 0, 0, << >>)

format(s, values) == formatLoop(s, values, execSpecifier(s, 0), 0, 0, << >>)

\* [\w- ]: a letter, a digit, '_', '-' or ' '.
isNameChar(u) ==
    \/ u >= 48 /\ u <= 57
    \/ u >= 65 /\ u <= 90
    \/ u >= 97 /\ u <= 122
    \/ u \in {95, 45, 32}

\* A code unit that '.' of a regular expression does not match.
isLineTerminator(u) == u \in {10, 13, 8232, 8233}

RECURSIVE nameRunEnd(_, _)
\* [\w- ]+ from offset o, greedy: the offset behind the run (o when the run
\* is empty).
nameRunEnd(s, o) ==
    IF o < Len(s) /\ isNameChar(charCodeAt(s, o)) THEN nameRunEnd(s, o + 1) ELSE o

RECURSIVE namePathEnd(_, _)
\* (\.[\w- ]+)* from offset o, greedy: the offset behind the last
\* '.'-and-run taken.
namePathEnd(s, o) ==
    IF o < Len(s) /\ charCodeAt(s, o) = 46 /\ nameRunEnd(s, o + 1) > o + 1
    THEN namePathEnd(s, nameRunEnd(s, o + 1))
    ELSE o

\* No match (exec returned null).
NoMatch == [index |-> -1, end |-> -1, nameEnd |-> -1, hasDefault |-> FALSE]

\* stringPlaceholderPattern '\${([\w- ]+(\.[\w- ]+)*)(:.+)?}' tried at
\* offset o: result[0] is s[index, end), result[1] is s[index + 2, nameEnd)
\* and result[3], when the group (:.+) took part, is s[nameEnd, end - 1).
\* The name is taken greedily and no shorter name can match; '.+' is
\* greedy, so the match ends at the last '}' that is reached without
\* crossing a line terminator.
matchPlaceholderAt(s, o) ==
    IF ~(o + 2 < Len(s) /\ charCodeAt(s, o) = 36 /\ charCodeAt(s, o + 1) = 123
            /\ nameRunEnd(s, o + 2) > o + 2)
    THEN NoMatch
    ELSE LET p == namePathEnd(s, nameRunEnd(s, o + 2))
             closers ==
                 IF p < Len(s) /\ charCodeAt(s, p) = 58
                 THEN { q \in (p + 2)..(Len(s) - 1) :
                          /\ charCodeAt(s, q) = 125
                          /\ \A k \in (p + 1)..(q - 1) :
                                 ~isLineTerminator(charCodeAt(s, k)) }
                 ELSE {}
         IN  IF closers # {}
             THEN [index |-> o,
                   end |-> (CHOOSE q \in closers : \A r \in closers : r <= q) + 1,
                   nameEnd |-> p, hasDefault |-> TRUE]
             ELSE IF p < Len(s) /\ charCodeAt(s, p) = 125
             THEN [index |-> o, end |-> p + 1, nameEnd |-> p, hasDefault |-> FALSE]
             ELSE NoMatch

\* placeholderExp.exec(text) with lastIndex: the first match at or after
\* lastIndex.
execPlaceholder(s, lastIndex) ==
    LET found == { o \in lastIndex..(Len(s) - 1) : matchPlaceholderAt(s, o) # NoMatch }
    IN  IF found = {} THEN NoMatch
        ELSE matchPlaceholderAt(s, CHOOSE o \in found : \A p \in found : o <= p)

RECURSIVE camelCaseFrom(_, _, _, _)
\* camelCase of change-case on a name of lower-case letters, '-', ' ' and
\* '_': the separators are dropped and the letter that follows one, unless
\* it is the first letter of the result, is written in upper case.
camelCaseFrom(part, k, upper, out) ==
    IF k > Len(part) THEN out
    ELSE IF part[k] \in {45, 32, 95}
         THEN camelCaseFrom(part, k + 1, out # << >>, out)
         ELSE camelCaseFrom(part, k + 1, FALSE,
                  Append(out, IF upper /\ part[k] >= 97 /\ part[k] <= 122
                              THEN part[k] - 32 ELSE part[k]))

camelCase(part) == camelCaseFrom(part, 1, FALSE, << >>)

RECURSIVE camelCaseNamePathFrom(_, _)
\* namePath.split('.'), camelCase of every part, join('.'), from 1-based
\* position k on.
camelCaseNamePathFrom(namePath, k) ==
    LET dots == { d \in k..Len(namePath) : namePath[d] = 46 }
    IN  IF dots = {} THEN camelCase(SubSeq(namePath, k, Len(namePath)))
        ELSE LET d == CHOOSE x \in dots : \A y \in dots : x <= y
             IN  camelCase(SubSeq(namePath, k, d - 1)) \o << 46 >>
                     \o camelCaseNamePathFrom(namePath, d + 1)

camelCaseNamePath(namePath) == camelCaseNamePathFrom(namePath, 1)

\* resolverFunc: the value '#' for the names of resolved, undefined for
\* every other name.
resolverFunc(resolved, placeholderName) ==
    IF placeholderName \in resolved THEN Str(<< 35 >>) ELSE Undefined

RECURSIVE resolvePlaceholderLoop(_, _, _, _, _)
\* The while loop of resolvePlaceholder and the statements after it;
\* result is the current match.
resolvePlaceholderLoop(s, resolved, result, bufferPos, buffer) ==
    IF result = NoMatch
    THEN join(IF bufferPos < Len(s)
              THEN Append(buffer, Str(substring(s, bufferPos, Len(s))))
              ELSE buffer)
    ELSE LET length == result.end - result.index
             name == substring(s, result.index + 2, result.nameEnd)
             gap == IF result.index # bufferPos
                    THEN Append(buffer, Str(substring(s, bufferPos, result.index)))
                    ELSE buffer
             camelName == camelCaseNamePath(name)
             value == resolverFunc(resolved, camelName)
             pushed ==
                 IF value = Undefined
                 THEN IF result.hasDefault
                      THEN Append(gap, Str(substring(s, result.nameEnd, result.end - 1)))
                      ELSE Append(gap, Str(name))
                 ELSE Append(gap, value)
         IN  resolvePlaceholderLoop(s, resolved, execPlaceholder(s, result.end),
                                    result.index + length, pushed)

resolvePlaceholder(s, resolved) ==
    resolvePlaceholderLoop(s, resolved, execPlaceholder(s, 0), 0, << >>)

(***************************************************************************)
(* Input texts.                                                            *)
(***************************************************************************)
\* 'a', CR, LF, ZWJ, VS16, a lone high surrogate, a lone low surrogate, and
\* the surrogate pairs of U+1F1FA (regional indicator) and U+1F004
\* (pictographic).
Pieces ==
    { <<97>>, <<13>>, <<10>>, <<8205>>, <<65039>>, <<55356>>, <<56826>>,
      <<55356, 56826>>, <<55356, 56324>> }

RECURSIVE textsOfPieces(_)
textsOfPieces(n) ==
    IF n = 0 THEN { << >> }
    ELSE textsOfPieces(n - 1)
         \cup { t \o p : t \in textsOfPieces(n - 1), p \in Pieces }

\* The test string of widths 2, 4, 2, 7.
TestEmojiText ==
    << 55357, 56860, 55357, 56397, 55356, 57340, 55357, 56397,
       55358, 56614, 55356, 57339, 8205, 9794, 65039 >>

\* The test string of widths 2, 4, 2 with the flag U+1F1FA U+1F1F8 (the
\* literal is stored mis-decoded in the test file; these are the code units
\* its comment describes).
TestFlagText == << 55357, 56860, 55356, 56826, 55356, 56824, 55357, 56397 >>

\* A text of exactly two regional indicators.
FlagOnlyText == << 55356, 56826, 55356, 56824 >>

\* Runs of a pictographic base, an emoji modifier, a ZWJ, a second
\* pictographic code point and a variation selector (the last cluster of
\* TestEmojiText is one of them).
ZwjRuns ==
    { base \o <<55356, 57339>> \o <<8205>> \o second \o <<65039>> :
        base \in { <<55358, 56614>>, <<9794>> },
        second \in { <<9794>>, <<55356, 56324>> } }

\* Every run between every two pieces (or none).
RunTexts ==
    { before \o run \o after :
        before \in Pieces \cup { << >> },
        run \in ZwjRuns,
        after \in Pieces \cup { << >> } }

RECURSIVE IndicatorRun(_)
\* n regional indicators U+1F1FA.
IndicatorRun(n) ==
    IF n = 0 THEN << >> ELSE IndicatorRun(n - 1) \o << 55356, 56826 >>

\* Nothing, 'a', ZWJ and the pictographic U+1F004.
IndicatorContexts == { << >>, << 97 >>, << 8205 >>, << 55356, 56324 >> }

\* Every run of 3 to MaxIndicatorRun regional indicators between every two
\* contexts.
IndicatorRunTexts ==
    { before \o IndicatorRun(n) \o after :
        before \in IndicatorContexts,
        n \in 3..MaxIndicatorRun,
        after \in IndicatorContexts }

Texts ==
    textsOfPieces(MaxPieces) \cup RunTexts \cup IndicatorRunTexts
        \cup { TestEmojiText, TestFlagText, FlagOnlyText }

Offsets(s) == 0..(Len(s) + OffsetSlack)

(***************************************************************************)
(* The state machine: a client holds a text and calls StringUtils on it.   *)
(* op, arg and the ret variables record the last call and its result       *)
(* (op = "none" before the first call); prevOp and prevArg record the call *)
(* before it when the last call took that call's result as its offset.     *)
(* args holds the further arguments of a text-editing call and ranges the  *)
(* caller's array of ranges; the grapheme calls leave both alone.          *)
(* retWidth is the width a call of the decoder returned.                   *)
(***************************************************************************)
Init ==
    /\ text \in Texts
    /\ op = "none"
    /\ arg = 0
    /\ retOffset = 0
    /\ retText = << >>
    /\ retList = << >>
    /\ prevOp = "none"
    /\ prevArg = 0
    /\ fwd = << >>
    /\ bwd = << >>
    /\ args = NoArgs
    /\ ranges = << >>
    /\ retWidth = 0

GetNextUnicodeOffset ==
    /\ op = "none"
    /\ \E offset \in Offsets(text) :
        /\ op' = "getNextUnicodeOffset"
        /\ arg' = offset
        /\ retOffset' = getNextUnicodeOffset(text, offset)
        /\ prevOp' = "none"
        /\ prevArg' = 0
        /\ retText' = << >>
        /\ retList' = << >>
        /\ UNCHANGED <<text, fwd, bwd, args, ranges, retWidth>>

GetPreviousUnicodeOffset ==
    /\ op = "none"
    /\ \E offset \in (Offsets(text) \cup {-1}) :
        /\ op' = "getPreviousUnicodeOffset"
        /\ arg' = offset
        /\ retOffset' = getPreviousUnicodeOffset(text, offset)
        /\ prevOp' = "none"
        /\ prevArg' = 0
        /\ retText' = << >>
        /\ retList' = << >>
        /\ UNCHANGED <<text, fwd, bwd, args, ranges, retWidth>>

\* getPreviousUnicodeOffset called with the offset the last
\* getNextUnicodeOffset returned.
PreviousAfterNext ==
    /\ op = "getNextUnicodeOffset"
    /\ prevOp = "none"
    /\ op' = "getPreviousUnicodeOffset"
    /\ arg' = retOffset
    /\ retOffset' = getPreviousUnicodeOffset(text, retOffset)
    /\ prevOp' = op
    /\ prevArg' = arg
    /\ UNCHANGED <<text, retText, retList, fwd, bwd, args, ranges, retWidth>>

\* getNextUnicodeOffset called with the offset the last
\* getPreviousUnicodeOffset returned.
NextAfterPrevious ==
    /\ op = "getPreviousUnicodeOffset"
    /\ prevOp = "none"
    /\ op' = "getNextUnicodeOffset"
    /\ arg' = retOffset
    /\ retOffset' = getNextUnicodeOffset(text, retOffset)
    /\ prevOp' = op
    /\ prevArg' = arg
    /\ UNCHANGED <<text, retText, retList, fwd, bwd, args, ranges, retWidth>>

\* getPreviousUnicodeOffset called with the offset the last
\* getPreviousUnicodeOffset returned.
PreviousAfterPrevious ==
    /\ op = "getPreviousUnicodeOffset"
    /\ prevOp = "none"
    /\ op' = "getPreviousUnicodeOffset"
    /\ arg' = retOffset
    /\ retOffset' = getPreviousUnicodeOffset(text, retOffset)
    /\ prevOp' = op
    /\ prevArg' = arg
    /\ UNCHANGED <<text, retText, retList, fwd, bwd, args, ranges, retWidth>>

GetNextUnicodeChar ==
    /\ op = "none"
    /\ \E offset \in Offsets(text) :
        /\ op' = "getNextUnicodeChar"
        /\ arg' = offset
        /\ retText' = getNextUnicodeChar(text, offset)
        /\ retOffset' = 0
        /\ retList' = << >>
        /\ prevOp' = "none"
        /\ prevArg' = 0
        /\ UNCHANGED <<text, fwd, bwd, args, ranges, retWidth>>

GetPreviousUnicodeChar ==
    /\ op = "none"
    /\ \E offset \in (Offsets(text) \cup {-1}) :
        /\ op' = "getPreviousUnicodeChar"
        /\ arg' = offset
        /\ retText' = getPreviousUnicodeChar(text, offset)
        /\ retOffset' = 0
        /\ retList' = << >>
        /\ prevOp' = "none"
        /\ prevArg' = 0
        /\ UNCHANGED <<text, fwd, bwd, args, ranges, retWidth>>

SplitIntoUnicodeChar ==
    /\ op = "none"
    /\ op' = "splitIntoUnicodeChar"
    /\ arg' = 0
    /\ retList' = splitIntoUnicodeChar(text)
    /\ retOffset' = 0
    /\ retText' = << >>
    /\ prevOp' = "none"
    /\ prevArg' = 0
    /\ UNCHANGED <<text, fwd, bwd, args, ranges, retWidth>>

CountUnicodeChars ==
    /\ op = "none"
    /\ \E shortCircuit \in BOOLEAN :
        /\ op' = "countUnicodeChars"
        /\ arg' = 0
        /\ retOffset' = countUnicodeChars(text, shortCircuit)
        /\ retText' = << >>
        /\ retList' = << >>
        /\ prevOp' = "none"
        /\ prevArg' = 0
        /\ UNCHANGED <<text, fwd, bwd, args, ranges, retWidth>>

Next ==
    \/ GetNextUnicodeOffset
    \/ GetPreviousUnicodeOffset
    \/ PreviousAfterNext
    \/ NextAfterPrevious
    \/ PreviousAfterPrevious
    \/ GetNextUnicodeChar
    \/ GetPreviousUnicodeChar
    \/ SplitIntoUnicodeChar
    \/ CountUnicodeChars

Spec == Init /\ [][Next]_vars

(***************************************************************************)
(* Walks: the client chains getNextUnicodeOffset from offset 0 until the   *)
(* returned offset repeats, then chains getPreviousUnicodeOffset from the  *)
(* text's length until the returned offset repeats.  fwd and bwd hold the  *)
(* offsets of the two walks, the starting offset first.                    *)
(***************************************************************************)
Last(q) == q[Len(q)]

\* The walk has returned the same offset twice in a row.
Settled(q) == Len(q) >= 2 /\ q[Len(q)] = q[Len(q) - 1]

\* A walk is cut off after this many calls even if it has not settled.
WalkCap(s) == Len(s) + OffsetSlack

InitChain ==
    /\ text \in Texts
    /\ op = "none"
    /\ arg = 0
    /\ retOffset = 0
    /\ retText = << >>
    /\ retList = << >>
    /\ prevOp = "none"
    /\ prevArg = 0
    /\ fwd = << 0 >>
    /\ bwd = << >>
    /\ args = NoArgs
    /\ ranges = << >>
    /\ retWidth = 0

ChainNext ==
    /\ bwd = << >>
    /\ ~Settled(fwd)
    /\ Len(fwd) <= WalkCap(text)
    /\ fwd' = Append(fwd, getNextUnicodeOffset(text, Last(fwd)))
    /\ UNCHANGED <<text, op, arg, retOffset, retText, retList, prevOp, prevArg, bwd, args, ranges, retWidth>>

StartBackward ==
    /\ bwd = << >>
    /\ Settled(fwd)
    /\ bwd' = << Len(text) >>
    /\ UNCHANGED <<text, op, arg, retOffset, retText, retList, prevOp, prevArg, fwd, args, ranges, retWidth>>

ChainPrevious ==
    /\ bwd # << >>
    /\ ~Settled(bwd)
    /\ Len(bwd) <= WalkCap(text)
    /\ bwd' = Append(bwd, getPreviousUnicodeOffset(text, Last(bwd)))
    /\ UNCHANGED <<text, op, arg, retOffset, retText, retList, prevOp, prevArg, fwd, args, ranges, retWidth>>

NextChain == ChainNext \/ StartBackward \/ ChainPrevious

SpecChain == InitChain /\ [][NextChain]_vars

(***************************************************************************)
(* Cutting and replacing: the client holds a text and calls splice or      *)
(* truncateTextByRanges on it.  args records the arguments of the call     *)
(* (rangesBefore: the array of ranges as the client passed it), ranges the *)
(* client's array after the call and retText the string returned.          *)
(***************************************************************************)
\* The first n letters 'a', 'b', 'c', ...
Letters(n) == [ i \in 1..n |-> 96 + i ]

\* 'ab00cde000x0000z', the test string of truncateTextByRanges.
TestTruncateText ==
    << 97, 98, 48, 48, 99, 100, 101, 48, 48, 48, 120, 48, 48, 48, 48, 122 >>

\* The ranges of that test.
TestRanges ==
    << [start |-> 2, end |-> 4], [start |-> 7, end |-> 10],
       [start |-> 11, end |-> 15] >>

EditTexts == { Letters(n) : n \in 0..MaxEditLen } \cup { TestTruncateText }

\* The values handed to splice as addText.
AddTexts == { Undefined, Null, Str(<< >>), Str(<< 48 >>), Str(<< 48, 49 >>) }

\* Start indices and delete counts handed to splice.
SpliceIndices(s) == (-1)..(Len(s) + 1)

\* The ranges [start, end) that lie in a text of length n.
RangesWithin(n) ==
    { r \in [start : 0..n, end : 0..n] : r.start <= r.end }

RECURSIVE rangeListsOf(_, _)
\* The arrays of at most n ranges taken from R.
rangeListsOf(R, n) ==
    IF n = 0 THEN { << >> }
    ELSE rangeListsOf(R, n - 1)
         \cup { Append(rs, r) : rs \in rangeListsOf(R, n - 1), r \in R }

\* The arrays handed to truncateTextByRanges: for a short text every array
\* of at most MaxRanges ranges, for the test string its three ranges in
\* every order.
RangeLists(s) ==
    IF Len(s) <= MaxEditLen THEN rangeListsOf(RangesWithin(Len(s)), MaxRanges)
    ELSE { [ i \in 1..3 |-> TestRanges[p[i]] ] :
             p \in { q \in [1..3 -> 1..3] : \A i, j \in 1..3 : q[i] = q[j] => i = j } }

RangeOffsets == (-MaxRangeOffset)..MaxRangeOffset

InitEdit ==
    /\ text \in EditTexts
    /\ op = "none"
    /\ arg = 0
    /\ retOffset = 0
    /\ retText = << >>
    /\ retList = << >>
    /\ prevOp = "none"
    /\ prevArg = 0
    /\ fwd = << >>
    /\ bwd = << >>
    /\ args = NoArgs
    /\ ranges = << >>
    /\ retWidth = 0

Splice ==
    /\ op = "none"
    /\ \E startIndex \in SpliceIndices(text), deleteCount \in SpliceIndices(text),
          addText \in AddTexts :
        /\ op' = "splice"
        /\ args' = [NoArgs EXCEPT !.startIndex = startIndex,
                                  !.deleteCount = deleteCount,
                                  !.addText = addText]
        /\ retText' = splice(text, startIndex, deleteCount, addText)
        /\ UNCHANGED <<text, arg, retOffset, retList, prevOp, prevArg, fwd, bwd, ranges, retWidth>>

TruncateTextByRanges ==
    /\ op = "none"
    /\ \E rs \in RangeLists(text), rangeOffset \in RangeOffsets :
        /\ op' = "truncateTextByRanges"
        /\ args' = [NoArgs EXCEPT !.rangesBefore = rs, !.rangeOffset = rangeOffset]
        /\ ranges' = sortRanges(rs)
        /\ retText' = truncateTextByRanges(text, rs, rangeOffset)
        /\ UNCHANGED <<text, arg, retOffset, retList, prevOp, prevArg, fwd, bwd, retWidth>>

NextEdit == Splice \/ TruncateTextByRanges

SpecEdit == InitEdit /\ [][NextEdit]_vars

(***************************************************************************)
(* Formatting: the client holds a text and calls format on it with a list  *)
(* of values (args.values); retText is the string returned.                *)
(***************************************************************************)
RECURSIVE textsOf(_, _)
\* The texts made of at most n pieces of P.
textsOf(P, n) ==
    IF n = 0 THEN { << >> }
    ELSE textsOf(P, n - 1) \cup { t \o p : t \in textsOf(P, n - 1), p \in P }

\* '%s', '%d', '%', 'a' and 's'.
FormatPieces == { << 37, 115 >>, << 37, 100 >>, << 37 >>, << 97 >>, << 115 >> }

\* 'Hello %s, my number is %d.', the test string of format.
TestFormatText ==
    << 72, 101, 108, 108, 111, 32, 37, 115, 44, 32, 109, 121, 32, 110, 117,
       109, 98, 101, 114, 32, 105, 115, 32, 37, 100, 46 >>

\* 'Foo' and 123456, the values of that test.
TestFormatValues == << Str(<< 70, 111, 111 >>), Num(123456) >>

FormatTexts == textsOf(FormatPieces, MaxFormatPieces) \cup { TestFormatText }

\* 'x', '%s' and -12.
FormatValues == { Str(<< 120 >>), Str(<< 37, 115 >>), Num(-12) }

RECURSIVE valueListsOf(_, _)
\* The lists of at most n values of V.
valueListsOf(V, n) ==
    IF n = 0 THEN { << >> }
    ELSE valueListsOf(V, n - 1)
         \cup { Append(vs, v) : vs \in valueListsOf(V, n - 1), v \in V }

ValueLists == valueListsOf(FormatValues, MaxValues) \cup { TestFormatValues }

InitFormat ==
    /\ text \in FormatTexts
    /\ op = "none"
    /\ arg = 0
    /\ retOffset = 0
    /\ retText = << >>
    /\ retList = << >>
    /\ prevOp = "none"
    /\ prevArg = 0
    /\ fwd = << >>
    /\ bwd = << >>
    /\ args = NoArgs
    /\ ranges = << >>
    /\ retWidth = 0

Format ==
    /\ op = "none"
    /\ \E values \in ValueLists :
        /\ op' = "format"
        /\ args' = [NoArgs EXCEPT !.values = values]
        /\ retText' = format(text, values)
        /\ UNCHANGED <<text, arg, retOffset, retList, prevOp, prevArg, fwd, bwd, ranges, retWidth>>

NextFormat == Format

SpecFormat == InitFormat /\ [][NextFormat]_vars

(***************************************************************************)
(* Placeholders: the client holds a text and calls resolvePlaceholder on   *)
(* it with a resolver (args.resolved: the names the resolver has a value   *)
(* for); retText is the string returned.                                   *)
(***************************************************************************)
\* '${', 'a', '-', '.', ':', '}' and '!'.
PlaceholderPieces ==
    { << 36, 123 >>, << 97 >>, << 45 >>, << 46 >>, << 58 >>, << 125 >>, << 33 >> }

\* 'Hello ${name}, my number is ${number}.', the test string of
\* resolvePlaceholder.
TestPlaceholderText ==
    << 72, 101, 108, 108, 111, 32, 36, 123, 110, 97, 109, 101, 125, 44, 32,
       109, 121, 32, 110, 117, 109, 98, 101, 114, 32, 105, 115, 32, 36, 123,
       110, 117, 109, 98, 101, 114, 125, 46 >>

\* '${a:a} ${a}': a placeholder with a default before another placeholder.
TwoPlaceholdersText == << 36, 123, 97, 58, 97, 125, 32, 36, 123, 97, 125 >>

\* '${a:' LF '}': a line feed where the default would be.
LineFeedDefaultText == << 36, 123, 97, 58, 10, 125 >>

PlaceholderTexts ==
    textsOf(PlaceholderPieces, MaxPlaceholderPieces)
        \cup { TestPlaceholderText, TwoPlaceholdersText, LineFeedDefaultText }

\* The resolvers: one without any value, one with a value for 'a', one
\* with a value for 'a', 'aA', 'a.a', 'name' and 'number'.
Resolvers ==
    { {},
      { << 97 >> },
      { << 97 >>, << 97, 65 >>, << 97, 46, 97 >>, << 110, 97, 109, 101 >>,
        << 110, 117, 109, 98, 101, 114 >> } }

InitPlaceholder ==
    /\ text \in PlaceholderTexts
    /\ op = "none"
    /\ arg = 0
    /\ retOffset = 0
    /\ retText = << >>
    /\ retList = << >>
    /\ prevOp = "none"
    /\ prevArg = 0
    /\ fwd = << >>
    /\ bwd = << >>
    /\ args = NoArgs
    /\ ranges = << >>
    /\ retWidth = 0

ResolvePlaceholder ==
    /\ op = "none"
    /\ \E resolved \in Resolvers :
        /\ op' = "resolvePlaceholder"
        /\ args' = [NoArgs EXCEPT !.resolved = resolved]
        /\ retText' = resolvePlaceholder(text, resolved)
        /\ UNCHANGED <<text, arg, retOffset, retList, prevOp, prevArg, fwd, bwd, ranges, retWidth>>

NextPlaceholder == ResolvePlaceholder

SpecPlaceholder == InitPlaceholder /\ [][NextPlaceholder]_vars

(***************************************************************************)
(* Boundary rules: the client holds a text made of code points of every    *)
(* break category and calls splitIntoUnicodeChar or getNextUnicodeOffset   *)
(* on it.                                                                  *)
(***************************************************************************)
\* One code point of each category: 'a' (Other), CR, LF, U+0001 (Control),
\* U+0300 (Extend), ZWJ, U+0903 (SpacingMark), U+0600 (Prepend), U+1F1FA
\* (RegionalIndicator), U+2642 (ExtendedPictographic), U+1100 (L), U+1160
\* (V) and U+11A8 (T).
RulePieces ==
    { << 97 >>, << 13 >>, << 10 >>, << 1 >>, << 768 >>, << 8205 >>, << 2307 >>,
      << 1536 >>, << 55356, 56826 >>, << 9794 >>, << 4352 >>, << 4448 >>,
      << 4520 >> }

RECURSIVE ExtendRun(_)
\* n Extend code points U+0300.
ExtendRun(n) == IF n = 0 THEN << >> ELSE ExtendRun(n - 1) \o << 768 >>

\* A code point of any category (or none), up to MaxExtendRun Extend code
\* points, a ZWJ and a pictographic code point.
ZwjScanTexts ==
    { first \o ExtendRun(n) \o << 8205, 9794 >> :
        first \in RulePieces \cup { << >> }, n \in 0..MaxExtendRun }

RuleTexts == textsOf(RulePieces, MaxRulePieces) \cup ZwjScanTexts \cup { TestEmojiText }

InitRules ==
    /\ text \in RuleTexts
    /\ op = "none"
    /\ arg = 0
    /\ retOffset = 0
    /\ retText = << >>
    /\ retList = << >>
    /\ prevOp = "none"
    /\ prevArg = 0
    /\ fwd = << >>
    /\ bwd = << >>
    /\ args = NoArgs
    /\ ranges = << >>
    /\ retWidth = 0

NextRules == SplitIntoUnicodeChar \/ GetNextUnicodeOffset

SpecRules == InitRules /\ [][NextRules]_vars

(***************************************************************************)
(* Decoding: the forward decoder applied to a text of code units around    *)
(* the surrogate ranges, at an offset inside or outside the text.          *)
(***************************************************************************)
\* 'a', U+D7FF, the first and the last high surrogate, the first and the
\* last low surrogate, U+E000 and U+FFFF.
DecodeUnits ==
    { << 97 >>, << 55295 >>, << 55296 >>, << 56319 >>, << 56320 >>, << 57343 >>,
      << 57344 >>, << 65535 >> }

DecodeTexts == textsOf(DecodeUnits, MaxDecodeLen)

InitDecode ==
    /\ text \in DecodeTexts
    /\ op = "none"
    /\ arg = 0
    /\ retOffset = 0
    /\ retText = << >>
    /\ retList = << >>
    /\ prevOp = "none"
    /\ prevArg = 0
    /\ fwd = << >>
    /\ bwd = << >>
    /\ args = NoArgs
    /\ ranges = << >>
    /\ retWidth = 0

Decode ==
    /\ op = "none"
    /\ \E offset \in (Offsets(text) \cup {-1}) :
        /\ op' = "decode"
        /\ arg' = offset
        /\ retOffset' = decode(text, offset).cp
        /\ retWidth' = decode(text, offset).len
        /\ UNCHANGED <<text, retText, retList, prevOp, prevArg, fwd, bwd, args, ranges>>

NextDecode == Decode

SpecDecode == InitDecode /\ [][NextDecode]_vars

(***************************************************************************)
(* Boundaries of a text.                                                   *)
(***************************************************************************)
\* The grapheme-cluster boundaries of s: offset 0, the length, and the
\* offset of every code point that the boundary engine separates from the
\* code point before it.
Boundaries(s) ==
    LET cps == codePoints(s)
    IN  {0, Len(s)} \cup
        { cps[i + 1].off : i \in { j \in 1..(Len(cps) - 1) : shouldBreak(cps, j) } }

MinOf(S) == CHOOSE x \in S : \A y \in S : x <= y

MaxOf(S) == CHOOSE x \in S : \A y \in S : x >= y

\* Offset o lies between the two halves of a surrogate pair of s.
InsidePair(s, o) == o >= 1 /\ IsPairAt(s, o - 1)

RECURSIVE Flatten(_)
Flatten(list) ==
    IF list = << >> THEN << >> ELSE Head(list) \o Flatten(Tail(list))

RECURSIVE TotalLen(_, _)
\* Number of code units in the first k elements of list.
TotalLen(list, k) ==
    IF k = 0 THEN 0 ELSE TotalLen(list, k - 1) + Len(list[k])

(***************************************************************************)
(* Claims.                                                                 *)
(***************************************************************************)
\* C1: for 0 <= offset < length(text), also inside a cluster or between the
\* halves of a surrogate pair, getNextUnicodeOffset returns the smallest
\* boundary strictly greater than offset; for offset >= length(text) it
\* returns length(text).
C1_NextIsSmallestBoundaryAfter ==
    op = "getNextUnicodeOffset" =>
        IF arg >= Len(text)
        THEN retOffset = Len(text)
        ELSE retOffset = MinOf({ b \in Boundaries(text) : b > arg })

\* A call between the halves of a surrogate pair that is not the last code
\* point of its cluster: the result skips the rest of the cluster.
C1_Witness ==
    /\ op = "getNextUnicodeOffset"
    /\ InsidePair(text, arg)
    /\ arg + 1 \notin Boundaries(text)
    /\ retOffset > arg + 1
    /\ retOffset < Len(text)

\* C2: for 0 < offset <= length(text), also inside a cluster,
\* getPreviousUnicodeOffset returns the largest boundary strictly less than
\* offset; for offset <= 0 it returns 0.
C2_PreviousIsLargestBoundaryBefore ==
    op = "getPreviousUnicodeOffset" =>
        /\ arg <= 0 => retOffset = 0
        /\ (arg > 0 /\ arg <= Len(text)) =>
               retOffset = MaxOf({ b \in Boundaries(text) : b < arg })

\* A call inside a cluster whose result is neither 0 nor the offset before.
C2_Witness ==
    /\ op = "getPreviousUnicodeOffset"
    /\ arg > 0
    /\ arg < Len(text)
    /\ arg \notin Boundaries(text)
    /\ retOffset > 0
    /\ retOffset < arg - 2

\* C3: for every offset greater than length(text) getPreviousUnicodeOffset
\* returns length(text) itself, and the following call, made with that
\* result, returns the start of the last cluster.
C3_PreviousBeyondEndIsLength ==
    /\ (op = "getPreviousUnicodeOffset" /\ prevOp = "none" /\ arg > Len(text)) =>
           retOffset = Len(text)
    /\ (op = "getPreviousUnicodeOffset" /\ prevOp = "getPreviousUnicodeOffset"
            /\ prevArg > Len(text)) =>
           /\ arg = Len(text)
           /\ retOffset = MaxOf({ b \in Boundaries(text) : b < Len(text) \/ b = 0 })

\* The call beyond the end, then the call that steps over a last cluster of
\* several code points.
C3_Witness ==
    /\ op = "getPreviousUnicodeOffset"
    /\ prevOp = "getPreviousUnicodeOffset"
    /\ prevArg > Len(text)
    /\ arg = Len(text)
    /\ retOffset > 0
    /\ retOffset < Len(text) - 2

\* C4: the clusters returned by splitIntoUnicodeChar are non-empty and,
\* concatenated in order, reproduce the text code unit for code unit (they
\* are contiguous and do not overlap).
C4_SplitIsPartition ==
    op = "splitIntoUnicodeChar" =>
        /\ \A k \in 1..Len(retList) : Len(retList[k]) > 0
        /\ \A k \in 1..Len(retList) :
               retList[k] = SubSeq(text, TotalLen(retList, k - 1) + 1,
                                   TotalLen(retList, k))
        /\ Flatten(retList) = text

\* A split into at least two clusters, one of them of several code units.
C4_Witness ==
    /\ op = "splitIntoUnicodeChar"
    /\ Len(retList) >= 2
    /\ \E k \in 1..Len(retList) : Len(retList[k]) > 2

\* C5: the k-th element of splitIntoUnicodeChar(text) is text[b_k, b_(k+1))
\* with b_0 = 0 and b_(k+1) = getNextUnicodeOffset(text, b_k), the list
\* ending when b_k = length(text); the empty text gives the empty list.
C5_SplitFollowsNextBreak ==
    op = "splitIntoUnicodeChar" =>
        /\ \A k \in 1..Len(retList) :
               LET b == TotalLen(retList, k - 1)
               IN  /\ b < Len(text)
                   /\ retList[k] = SubSeq(text, b + 1, getNextUnicodeOffset(text, b))
        /\ TotalLen(retList, Len(retList)) = Len(text)
        /\ text = << >> => retList = << >>

\* A split whose clusters differ from the code points of the text.
C5_Witness ==
    /\ op = "splitIntoUnicodeChar"
    /\ Len(retList) >= 2
    /\ Len(retList) < Len(codePoints(text))

C7_WalksVisitSameOffsets ==
    /\ \A k \in 1..(Len(fwd) - 1) : fwd[k] = Len(text) => fwd[k + 1] = Len(text)
    /\ \A k \in 1..(Len(bwd) - 1) : bwd[k] = 0 => bwd[k + 1] = 0
    /\ Settled(fwd) => Last(fwd) = Len(text)
    /\ Settled(bwd) =>
           /\ Last(bwd) = 0
           /\ Len(bwd) = Len(fwd)
           /\ \A k \in 1..(Len(fwd) - 1) : bwd[Len(bwd) - k] = fwd[k]
           /\ { fwd[k] : k \in 1..Len(fwd) } = Boundaries(text)

\* Both walks done over a text of several clusters, one of them longer than
\* a surrogate pair.
C7_Witness ==
    /\ Settled(fwd)
    /\ Settled(bwd)
    /\ Len(fwd) >= 4
    /\ \E k \in 1..(Len(bwd) - 1) : bwd[k] - bwd[k + 1] > 2

\* C8: for 0 <= offset <= length(text),
\* previous(next(offset)) <= offset <= next(previous(offset)), and both
\* round-trip results are boundaries.
C8_RoundTrips ==
    /\ (op = "getPreviousUnicodeOffset" /\ prevOp = "getNextUnicodeOffset"
            /\ prevArg >= 0 /\ prevArg <= Len(text)) =>
           /\ retOffset <= prevArg
           /\ retOffset \in Boundaries(text)
    /\ (op = "getNextUnicodeOffset" /\ prevOp = "getPreviousUnicodeOffset"
            /\ prevArg >= 0 /\ prevArg <= Len(text)) =>
           /\ prevArg <= retOffset
           /\ retOffset \in Boundaries(text)

\* A round trip previous-then-next from inside a cluster that lands beyond
\* the next code point.
C8_Witness ==
    /\ op = "getNextUnicodeOffset"
    /\ prevOp = "getPreviousUnicodeOffset"
    /\ prevArg \notin Boundaries(text)
    /\ prevArg < retOffset
    /\ retOffset > arg + 2

\* The text is exactly two regional-indicator code points.
IsFlagPairText(s) ==
    LET cps == codePoints(s)
    IN  /\ Len(cps) = 2
        /\ cps[1].cat = "RegionalIndicator"
        /\ cps[2].cat = "RegionalIndicator"

\* Elements k and k + 1 are a flag between two pictographic code points.
IsEmbeddedFlagAt(cps, k) ==
    /\ k >= 2
    /\ k + 2 <= Len(cps)
    /\ cps[k - 1].cat = "ExtendedPictographic"
    /\ cps[k].cat = "RegionalIndicator"
    /\ cps[k + 1].cat = "RegionalIndicator"
    /\ cps[k + 2].cat = "ExtendedPictographic"

\* C9: for a text of exactly two regional indicators countUnicodeChars
\* returns 1 and getNextUnicodeOffset(text, 0) returns 4; between other
\* emoji, getNextUnicodeChar at the first indicator returns the whole flag.
C9_FlagPairIsOneCluster ==
    /\ (op = "countUnicodeChars" /\ IsFlagPairText(text)) => retOffset = 1
    /\ (op = "getNextUnicodeOffset" /\ arg = 0 /\ IsFlagPairText(text)) =>
           retOffset = 4
    /\ op = "getNextUnicodeChar" =>
           LET cps == codePoints(text)
           IN  \A k \in 1..Len(cps) :
                   (IsEmbeddedFlagAt(cps, k) /\ arg = cps[k].off) =>
                       retText = SubSeq(text, arg + 1, arg + 4)

\* getNextUnicodeChar(text, 2) on the test string returns its flag.
C9_Witness ==
    /\ op = "getNextUnicodeChar"
    /\ text = TestFlagText
    /\ arg = 2
    /\ retText = << 55356, 56826, 55356, 56824 >>

\* Elements k .. k + 4 are a pictographic base, an emoji modifier, a ZWJ, a
\* pictographic code point and a variation selector.
IsZwjRunAt(cps, k) ==
    /\ k + 4 <= Len(cps)
    /\ cps[k].cat = "ExtendedPictographic"
    /\ cps[k + 1].cp >= 127995 /\ cps[k + 1].cp <= 127999
    /\ cps[k + 2].cat = "ZeroWidthJoiner"
    /\ cps[k + 3].cat = "ExtendedPictographic"
    /\ cps[k + 4].cp >= 65024 /\ cps[k + 4].cp <= 65039

HasCrLf(s) == \E k \in 1..(Len(s) - 1) : s[k] = 13 /\ s[k + 1] = 10

\* C11 as stated: for every text whose code units are all ASCII, every
\* code point is its own cluster: countUnicodeChars returns the text's
\* length and getNextUnicodeOffset(text, i) returns i + 1 for every
\* 0 <= i < length.
C11_AsciiEachCodePointOwnCluster ==
    isAsciiOnly(text) =>
        /\ op = "countUnicodeChars" => retOffset = Len(text)
        /\ (op = "getNextUnicodeOffset" /\ prevOp = "none"
                /\ 0 <= arg /\ arg < Len(text)) => retOffset = arg + 1

\* C11 amended: for every text whose code units are all ASCII and in which
\* no CR is immediately followed by an LF, every code point is its own
\* cluster: countUnicodeChars returns the text's length and
\* getNextUnicodeOffset(text, i) returns i + 1 for every 0 <= i < length.
C11_AsciiWithoutCrLf ==
    (isAsciiOnly(text) /\ ~HasCrLf(text)) =>
        /\ op = "countUnicodeChars" => retOffset = Len(text)
        /\ (op = "getNextUnicodeOffset" /\ prevOp = "none"
                /\ 0 <= arg /\ arg < Len(text)) => retOffset = arg + 1

\* getNextUnicodeOffset inside the ASCII text LF CR 'a', which has an LF
\* and a CR but no CR LF.
C11_Witness ==
    /\ op = "getNextUnicodeOffset"
    /\ text = << 10, 13, 97 >>
    /\ arg = 1
    /\ retOffset = 2

\* The code unit at offset o of s is a surrogate without its partner.
IsUnpairedSurrogateAt(s, o) ==
    \/ IsHighSurrogate(charCodeAt(s, o)) /\ ~IsPairAt(s, o)
    \/ IsLowSurrogate(charCodeAt(s, o)) /\ ~IsPairAt(s, o - 1)

C14_NextCharIsClusterAtBoundary ==
    op = "getNextUnicodeChar" =>
        /\ arg >= Len(text) => retText = << >>
        /\ (arg < Len(text) /\ arg \in Boundaries(text)) =>
               LET end == MinOf({ b \in Boundaries(text) : b > arg })
               IN  retText = SubSeq(text, arg + 1, end)

\* getNextUnicodeChar at offset 2 of the test string returns its second
\* cluster, 4 code units wide.
C14_Witness ==
    /\ op = "getNextUnicodeChar"
    /\ text = TestEmojiText
    /\ arg = 2
    /\ retText = << 55357, 56397, 55356, 57340 >>

\* C15: for every cluster boundary b after the start of the text,
\* getPreviousUnicodeChar(text, b) returns the code units from the
\* boundary before b up to b, the cluster that ends at b; for offset 0 and
\* for every offset outside the text it returns the empty string.
C15_PreviousCharIsClusterAtBoundary ==
    op = "getPreviousUnicodeChar" =>
        /\ (arg <= 0 \/ arg > Len(text)) => retText = << >>
        /\ (0 < arg /\ arg <= Len(text) /\ arg \in Boundaries(text)) =>
               LET start == MaxOf({ b \in Boundaries(text) : b < arg })
               IN  retText = SubSeq(text, start + 1, arg)

\* getPreviousUnicodeChar at the end of the test string returns its last
\* cluster, 7 code units wide.
C15_Witness ==
    /\ op = "getPreviousUnicodeChar"
    /\ text = TestEmojiText
    /\ arg = 15
    /\ retText = << 55358, 56614, 55356, 57339, 8205, 9794, 65039 >>

\* The string that splice adds for addText: nothing when addText is
\* undefined, null or empty.
AddedString(addText) == IF addText.kind = "string" THEN addText.str ELSE << >>

\* C16: splice(text, startIndex, deleteCount, addText) with
\* 0 <= startIndex <= length and deleteCount >= 0 returns the code units
\* before startIndex, then addText (nothing when it is undefined, null or
\* empty), then the code units from startIndex + deleteCount to the end
\* (none when that offset reaches the end).
C16_SpliceCutsAndInserts ==
    (op = "splice" /\ 0 <= args.startIndex /\ args.startIndex <= Len(text)
        /\ args.deleteCount >= 0) =>
        LET from == args.startIndex + args.deleteCount
        IN  retText =
                SubSeq(text, 1, args.startIndex)
                    \o AddedString(args.addText)
                    \o (IF from >= Len(text) THEN << >>
                        ELSE SubSeq(text, from + 1, Len(text)))

\* splice('abc', 1, 1, '01') returns 'a01c'.
C16_Witness ==
    /\ op = "splice"
    /\ text = Letters(3)
    /\ args.startIndex = 1
    /\ args.deleteCount = 1
    /\ args.addText = Str(<< 48, 49 >>)
    /\ retText = << 97, 48, 49, 99 >>

\* No two ranges of the array share a code unit.
NonOverlapping(rs) ==
    \A i, j \in 1..Len(rs) :
        i # j => (rs[i].end <= rs[j].start \/ rs[j].end <= rs[i].start)

\* Every range of the array, shifted by off, lies inside s.
ShiftedInside(s, rs, off) ==
    \A k \in 1..Len(rs) : 0 <= rs[k].start + off /\ rs[k].end + off <= Len(s)

\* The 0-based offsets of s that some range of the array, shifted by off,
\* covers.
Covered(s, rs, off) ==
    { o \in 0..(Len(s) - 1) :
        \E k \in 1..Len(rs) : rs[k].start + off <= o /\ o < rs[k].end + off }

RECURSIVE KeepOutside(_, _, _)
\* The code units of s from offset o on whose offsets are not in S.
KeepOutside(s, S, o) ==
    IF o >= Len(s) THEN << >>
    ELSE (IF o \in S THEN << >> ELSE << charCodeAt(s, o) >>)
             \o KeepOutside(s, S, o + 1)

\* C17: with pairwise non-overlapping ranges, in any order in the array,
\* and a rangeOffset (positive, zero or negative) that keeps every shifted
\* range inside the text, truncateTextByRanges returns the text without
\* the code units of the union of the shifted ranges
\* [start + rangeOffset, end + rangeOffset), the others in their order.
C17_TruncateRemovesUnionOfRanges ==
    (op = "truncateTextByRanges" /\ NonOverlapping(args.rangesBefore)
        /\ ShiftedInside(text, args.rangesBefore, args.rangeOffset)) =>
        retText =
            KeepOutside(text, Covered(text, args.rangesBefore, args.rangeOffset), 0)

\* truncateTextByRanges('ab00cde000x0000z', ranges, 1) with the test's
\* three ranges out of order returns 'ab0de00'.
C17_Witness ==
    /\ op = "truncateTextByRanges"
    /\ text = TestTruncateText
    /\ args.rangesBefore = << TestRanges[3], TestRanges[1], TestRanges[2] >>
    /\ args.rangeOffset = 1
    /\ retText = << 97, 98, 48, 100, 101, 48, 48 >>

\* The offsets of s at which a specifier (%s or %d) begins.
SpecifierOffsets(s) == { o \in 0..(Len(s) - 2) : isSpecifierAt(s, o) }

RECURSIVE Substituted(_, _, _)
\* s from offset o on with each specifier replaced by the next value of
\* values, in order, and every other code unit kept.
Substituted(s, o, values) ==
    IF o >= Len(s) THEN << >>
    ELSE IF isSpecifierAt(s, o)
         THEN toJoinedString(Head(values)) \o Substituted(s, o + 2, Tail(values))
         ELSE << charCodeAt(s, o) >> \o Substituted(s, o + 1, values)

\* C18: with at least as many values as the text has specifiers, format
\* returns the text in which the k-th specifier (%s or %d) from the left
\* is replaced by the k-th value and every code unit outside the
\* specifiers is kept in its order.
C18_FormatReplacesSpecifiersInOrder ==
    (op = "format" /\ Len(args.values) >= Cardinality(SpecifierOffsets(text))) =>
        retText = Substituted(text, 0, args.values)

\* format('Hello %s, my number is %d.', 'Foo', 123456) returns
\* 'Hello Foo, my number is 123456.'.
C18_Witness ==
    /\ op = "format"
    /\ text = TestFormatText
    /\ args.values = TestFormatValues
    /\ retText =
           << 72, 101, 108, 108, 111, 32, 70, 111, 111, 44, 32, 109, 121, 32,
              110, 117, 109, 98, 101, 114, 32, 105, 115, 32, 49, 50, 51, 52,
              53, 54, 46 >>

\* n is a placeholder name: runs of name characters separated by single
\* dots.
IsNamePath(n) ==
    /\ n # << >>
    /\ \A k \in 1..Len(n) : isNameChar(n[k]) \/ n[k] = 46
    /\ n[1] # 46 /\ n[Len(n)] # 46
    /\ \A k \in 1..(Len(n) - 1) : ~(n[k] = 46 /\ n[k + 1] = 46)

\* The offsets of s that hold the code unit u.
OffsetsOf(s, u) == { o \in 0..(Len(s) - 1) : charCodeAt(s, o) = u }

\* s holds one placeholder and no other '$', '{' or '}': '${' at offset i,
\* '}' at offset j, between them a name and, when a ':' follows the name, a
\* default value that is not empty and has no line terminator.
IsOnePlaceholder(s, i, j) ==
    /\ OffsetsOf(s, 36) = {i}
    /\ OffsetsOf(s, 123) = {i + 1}
    /\ OffsetsOf(s, 125) = {j}
    /\ j > i + 2
    /\ LET colons == { c \in OffsetsOf(s, 58) : i + 2 < c /\ c < j }
       IN  IF colons = {} THEN IsNamePath(SubSeq(s, i + 3, j))
           ELSE LET c == MinOf(colons)
                IN  /\ IsNamePath(SubSeq(s, i + 3, c))
                    /\ c + 1 < j
                    /\ \A k \in (c + 1)..(j - 1) : ~isLineTerminator(charCodeAt(s, k))

\* What the placeholder of s at i..j is to be replaced by: the resolver's
\* value when it has one, else the default value, the text behind the
\* colon, when there is one, else the name.
Replacement(s, i, j, resolved) ==
    LET colons == { c \in OffsetsOf(s, 58) : i + 2 < c /\ c < j }
        name == IF colons = {} THEN SubSeq(s, i + 3, j)
                ELSE SubSeq(s, i + 3, MinOf(colons))
    IN  IF camelCaseNamePath(name) \in resolved
        THEN toJoinedString(resolverFunc(resolved, camelCaseNamePath(name)))
        ELSE IF colons # {} THEN SubSeq(s, MinOf(colons) + 2, j)
        ELSE name

\* C19: in a text with one placeholder, resolvePlaceholder replaces the
\* placeholder by the resolver's value when the resolver returns one, by
\* the default value (the text that follows the colon) when the resolver
\* returns undefined and the placeholder has a default, and by the
\* placeholder name when it has none; the text outside the placeholder is
\* kept unchanged.
C19_PlaceholderReplaced ==
    op = "resolvePlaceholder" =>
        \A i \in OffsetsOf(text, 36), j \in OffsetsOf(text, 125) :
            IsOnePlaceholder(text, i, j) =>
                retText =
                    SubSeq(text, 1, i) \o Replacement(text, i, j, args.resolved)
                        \o SubSeq(text, j + 2, Len(text))

\* A maximal run of n RegionalIndicator code points begins at element a of
\* cps.
IsIndicatorRunAt(cps, a, n) ==
    /\ n >= 1
    /\ a + n - 1 <= Len(cps)
    /\ \A k \in a..(a + n - 1) : cps[k].cat = "RegionalIndicator"
    /\ a = 1 \/ cps[a - 1].cat # "RegionalIndicator"
    /\ a + n - 1 = Len(cps) \/ cps[a + n].cat # "RegionalIndicator"

\* Two surrogate pairs of regional indicators stand side by side in s (a
\* text without them has no run of two or more).
HasAdjacentIndicators(s) ==
    \E o \in 0..(Len(s) - 4) :
        /\ IsPairAt(s, o) /\ IsPairAt(s, o + 2)
        /\ getBreakCategory(codePointAt(s, o)) = "RegionalIndicator"
        /\ getBreakCategory(codePointAt(s, o + 2)) = "RegionalIndicator"

\* The offsets at which the pieces of a split end.
SplitOffsets(list) == { TotalLen(list, k) : k \in 1..Len(list) }

\* C20: in a maximal run of n RegionalIndicator code points, anywhere in
\* the text, there is no boundary between the k-th and the (k+1)-th code
\* point when k is odd and there is one when k is even: the split has a
\* piece ending there exactly when k is even, getNextUnicodeOffset from
\* the start of the k-th code point stops there exactly when k is even,
\* and getPreviousUnicodeOffset from the end of the (k+1)-th code point
\* stops there exactly when k is even.
C20_IndicatorRunsPairUp ==
    (op \in {"splitIntoUnicodeChar", "getNextUnicodeOffset", "getPreviousUnicodeOffset"}
        /\ HasAdjacentIndicators(text)) =>
        LET cps == codePoints(text)
        IN  \A a \in 1..Len(cps), n \in 2..Len(cps) :
                IsIndicatorRunAt(cps, a, n) =>
                    \A k \in 1..(n - 1) :
                        LET kth == cps[a + k - 1]
                            b == cps[a + k].off
                            after == b + cps[a + k].len
                        IN  /\ op = "splitIntoUnicodeChar" =>
                                   ((b \in SplitOffsets(retList)) <=> (k % 2 = 0))
                            /\ (op = "getNextUnicodeOffset" /\ arg = kth.off) =>
                                   /\ (retOffset = b) <=> (k % 2 = 0)
                                   /\ k % 2 = 1 => retOffset >= after
                            /\ (op = "getPreviousUnicodeOffset" /\ arg = after) =>
                                   /\ (retOffset = b) <=> (k % 2 = 0)
                                   /\ k % 2 = 1 => retOffset <= kth.off

\* The split of 'a' and three regional indicators: 'a', a pair and a
\* single indicator.
C20_Witness ==
    /\ op = "splitIntoUnicodeChar"
    /\ text = << 97 >> \o IndicatorRun(3)
    /\ retList = << << 97 >>, IndicatorRun(2), IndicatorRun(1) >>

\* s holds the code unit u.
HoldsUnit(s, u) == \E k \in 1..Len(s) : s[k] = u

\* Scanning backward from element i through Extend code points ends at an
\* ExtendedPictographic code point, element j.
ScanEndsAtPictographic(cps, i, j) ==
    /\ 1 <= j /\ j <= i
    /\ cps[j].cat = "ExtendedPictographic"
    /\ \A m \in (j + 1)..i : cps[m].cat = "Extend"

\* C21: for a ZeroWidthJoiner immediately followed by an
\* ExtendedPictographic code point: when the scan backward from the
\* joiner through Extend code points ends at an ExtendedPictographic code
\* point, no piece of the split ends before or after the joiner and
\* getNextUnicodeOffset from anywhere between that code point and the
\* joiner goes beyond the code point that follows the joiner; when the
\* scan ends at any other code point or at the start of the text, a piece
\* of the split ends between the joiner and the code point that follows
\* it, and getNextUnicodeOffset from the joiner returns that offset.
C21_ZwjGluesPictographics ==
    (op \in {"splitIntoUnicodeChar", "getNextUnicodeOffset"} /\ HoldsUnit(text, 8205)) =>
        LET cps == codePoints(text)
        IN  \A i \in 1..(Len(cps) - 1) :
                (cps[i].cat = "ZeroWidthJoiner"
                    /\ cps[i + 1].cat = "ExtendedPictographic") =>
                    LET zwj == cps[i].off
                        pict == cps[i + 1].off
                        glued == \E j \in 1..(i - 1) : ScanEndsAtPictographic(cps, i - 1, j)
                    IN  IF glued
                        THEN /\ op = "splitIntoUnicodeChar" =>
                                    /\ zwj \notin SplitOffsets(retList)
                                    /\ pict \notin SplitOffsets(retList)
                             /\ op = "getNextUnicodeOffset" =>
                                    \A j \in 1..(i - 1) :
                                        (ScanEndsAtPictographic(cps, i - 1, j)
                                            /\ cps[j].off <= arg /\ arg < pict) =>
                                            retOffset > pict
                        ELSE /\ op = "splitIntoUnicodeChar" =>
                                    pict \in SplitOffsets(retList)
                             /\ (op = "getNextUnicodeOffset" /\ arg = zwj) =>
                                    retOffset = pict

\* The split of a pictographic code point, two Extend code points, a ZWJ
\* and a pictographic code point is one piece.
C21_Witness ==
    /\ op = "splitIntoUnicodeChar"
    /\ text = << 9794, 768, 768, 8205, 9794 >>
    /\ retList = << << 9794, 768, 768, 8205, 9794 >> >>

\* The categories that attach to the code point before them.
AttachingCategories == {"Extend", "ZeroWidthJoiner", "SpacingMark"}

\* C22: for every adjacent pair of code points whose second code point is
\* Extend, ZeroWidthJoiner or SpacingMark, whatever the first code point
\* is, no piece of the split ends between them and getNextUnicodeOffset
\* from the first code point goes beyond the start of the second; so no
\* piece of the split but the first starts with such a code point.
C22_AttachToPreceding ==
    /\ op \in {"splitIntoUnicodeChar", "getNextUnicodeOffset"} =>
           LET cps == codePoints(text)
           IN  \A i \in 1..(Len(cps) - 1) :
                   cps[i + 1].cat \in AttachingCategories =>
                       /\ op = "splitIntoUnicodeChar" =>
                              cps[i + 1].off \notin SplitOffsets(retList)
                       /\ (op = "getNextUnicodeOffset" /\ arg = cps[i].off) =>
                              retOffset > cps[i + 1].off
    /\ op = "splitIntoUnicodeChar" =>
           \A k \in 2..Len(retList) :
               getBreakCategory(codePointAt(retList[k], 0)) \notin AttachingCategories

\* The split of LF, an Extend code point and a SpacingMark is one piece.
C22_Witness ==
    /\ op = "splitIntoUnicodeChar"
    /\ text = << 10, 768, 2307 >>
    /\ retList = << << 10, 768, 2307 >> >>

\* The offsets of s at which a CR stands immediately before an LF.
CrLfOffsets(s) ==
    { o \in 0..(Len(s) - 2) : charCodeAt(s, o) = 13 /\ charCodeAt(s, o + 1) = 10 }

\* C23 as stated: there is no boundary between a CR and the LF that
\* immediately follows it: getNextUnicodeOffset from the offset of the CR
\* returns the offset after the LF, and the split has the piece CR LF
\* there.
C23_CrLfIsOneCluster ==
    \A o \in CrLfOffsets(text) :
        /\ (op = "getNextUnicodeOffset" /\ arg = o) => retOffset = o + 2
        /\ op = "splitIntoUnicodeChar" =>
               \E k \in 1..Len(retList) :
                   retList[k] = << 13, 10 >> /\ TotalLen(retList, k - 1) = o

\* The category of the code point that begins at offset o of s ("none"
\* beyond the end).
CategoryAt(s, o) ==
    IF o >= Len(s) THEN "none" ELSE getBreakCategory(codePointAt(s, o))

\* C23 amended: there is no boundary between a CR and the LF that
\* immediately follows it: no piece of the split ends between them and
\* getNextUnicodeOffset from the offset of the CR returns an offset behind
\* the LF; it returns the offset after the LF, and a piece of the split
\* ends there, unless an Extend, ZeroWidthJoiner or SpacingMark code point
\* follows the LF; and the piece with the CR and the LF is exactly CR LF
\* unless such a code point follows the LF or a Prepend code point stands
\* before the CR.
C23_CrLfStaysTogether ==
    \A o \in CrLfOffsets(text) :
        LET attached == CategoryAt(text, o + 2) \in AttachingCategories
            prepended == o >= 1 /\ CategoryAt(text, o - 1) = "Prepend"
        IN  /\ (op = "getNextUnicodeOffset" /\ arg = o) =>
                   /\ retOffset >= o + 2
                   /\ ~attached => retOffset = o + 2
            /\ op = "splitIntoUnicodeChar" =>
                   /\ (o + 1) \notin SplitOffsets(retList)
                   /\ ~attached => (o + 2) \in SplitOffsets(retList)
                   /\ (~attached /\ ~prepended) =>
                          \E k \in 1..Len(retList) :
                              retList[k] = << 13, 10 >> /\ TotalLen(retList, k - 1) = o

\* getNextUnicodeOffset from the CR of 'a' CR LF returns the offset after
\* the LF.
C23_Witness ==
    /\ op = "getNextUnicodeOffset"
    /\ text = << 97, 13, 10 >>
    /\ arg = 1
    /\ retOffset = 3

\* One of the no-break rules 1 to 6 matches the pair of elements i and
\* i + 1 of cps.
NoBreakRuleMatches(cps, i) ==
    LET a == cps[i].cat
        b == cps[i + 1].cat
    IN  \/ a = "CR" /\ b = "LF"
        \/ b \in AttachingCategories
        \/ a = "Prepend"
        \/ a = "L" /\ b \in {"L", "V", "LV"}
        \/ a \in {"LV", "V"} /\ b \in {"V", "T"}
        \/ a \in {"LVT", "T"} /\ b = "T"
        \/ /\ a = "ZeroWidthJoiner" /\ b = "ExtendedPictographic"
           /\ \E j \in 1..(i - 1) : ScanEndsAtPictographic(cps, i - 1, j)
        \/ /\ a = "RegionalIndicator" /\ b = "RegionalIndicator"
           /\ \E start \in 1..i :
                  /\ \A m \in start..i : cps[m].cat = "RegionalIndicator"
                  /\ start = 1 \/ cps[start - 1].cat # "RegionalIndicator"
                  /\ (i - start + 1) % 2 = 1

\* C24: for every adjacent pair of code points that none of the no-break
\* rules 1 to 6 matches, a piece of the split ends between them and
\* getNextUnicodeOffset from the first returns the offset of the second;
\* and a pair that one or several of the rules match has no boundary,
\* whichever of them comes first in the list.
C24_BreakByDefault ==
    op \in {"splitIntoUnicodeChar", "getNextUnicodeOffset"} =>
        LET cps == codePoints(text)
        IN  \A i \in 1..(Len(cps) - 1) :
                /\ op = "splitIntoUnicodeChar" =>
                       ((cps[i + 1].off \in SplitOffsets(retList))
                            <=> ~NoBreakRuleMatches(cps, i))
                /\ (op = "getNextUnicodeOffset" /\ arg = cps[i].off) =>
                       ((retOffset = cps[i + 1].off) <=> ~NoBreakRuleMatches(cps, i))

\* The split of LF, CR and a pictographic code point: three pieces.
C24_Witness ==
    /\ op = "splitIntoUnicodeChar"
    /\ text = << 10, 13, 9794 >>
    /\ retList = << << 10 >>, << 13 >>, << 9794 >> >>

\* C25: for every text and every offset inside it, the forward decoder
\* returns width 2 and the code point
\* 0x10000 + (high - 0xD800) * 0x400 + (low - 0xDC00) exactly when the
\* code unit at the offset is in 0xD800..0xDBFF and the next offset is
\* inside the text and holds a code unit in 0xDC00..0xDFFF; in every other
\* case it returns the code unit itself with width 1; the code point never
\* exceeds 0x10FFFF; and for an offset outside the text it returns no code
\* point.
C25_DecoderValues ==
    op = "decode" =>
        IF arg < 0 \/ arg >= Len(text)
        THEN retOffset = -1 /\ retWidth = 0
        ELSE LET unit == text[arg + 1]
                 paired ==
                     /\ unit >= 55296 /\ unit <= 56319
                     /\ arg + 2 <= Len(text)
                     /\ text[arg + 2] >= 56320 /\ text[arg + 2] <= 57343
             IN  /\ paired =>
                        /\ retWidth = 2
                        /\ retOffset =
                               65536 + (unit - 55296) * 1024 + (text[arg + 2] - 56320)
                 /\ ~paired => (retWidth = 1 /\ retOffset = unit)
                 /\ retOffset >= 0 /\ retOffset <= 1114111

\* The last high surrogate and the last low surrogate decode to U+10FFFF.
C25_Witness ==
    /\ op = "decode"
    /\ text = << 56319, 57343 >>
    /\ arg = 0
    /\ retOffset = 1114111
    /\ retWidth = 2

\* C26: for every text, offset 0 and offset length(text) are boundaries:
\* the forward walk from 0 returns a strictly larger offset, at most
\* length(text), as long as it stands below length(text), reaches
\* length(text) after at most length(text) calls and returns length(text)
\* from there; the backward walk from length(text) returns a strictly
\* smaller offset, at least 0, as long as it stands above 0, reaches 0
\* after at most length(text) calls and returns 0 from there.
C26_WalksAdvanceToTheEnds ==
    /\ \A k \in 1..(Len(fwd) - 1) :
           IF fwd[k] < Len(text)
           THEN fwd[k] < fwd[k + 1] /\ fwd[k + 1] <= Len(text)
           ELSE fwd[k + 1] = Len(text)
    /\ Len(fwd) <= Len(text) + 2
    /\ Len(fwd) = Len(text) + 2 => fwd[Len(text) + 1] = Len(text)
    /\ Settled(fwd) => Last(fwd) = Len(text)
    /\ \A k \in 1..(Len(bwd) - 1) :
           IF bwd[k] > 0
           THEN bwd[k] > bwd[k + 1] /\ bwd[k + 1] >= 0
           ELSE bwd[k + 1] = 0
    /\ Len(bwd) <= Len(text) + 2
    /\ Len(bwd) = Len(text) + 2 => bwd[Len(text) + 1] = 0
    /\ Settled(bwd) => Last(bwd) = 0

\* Both walks over the emoji test string, each with one more call at its
\* end.
C26_Witness ==
    /\ text = TestEmojiText
    /\ Len(fwd) >= 3 /\ Settled(fwd) /\ Last(fwd) = Len(text)
    /\ Len(bwd) >= 3 /\ Settled(bwd) /\ Last(bwd) = 0

\* The array is in ascending order of start.
AscendingByStart(rs) ==
    \A i, j \in 1..Len(rs) : i < j => rs[i].start <= rs[j].start

\* Array b holds the ranges of array a, each as often as a does, in some
\* order.
SameRanges(a, b) ==
    /\ Len(a) = Len(b)
    /\ \A r \in { a[k] : k \in 1..Len(a) } \cup { b[k] : k \in 1..Len(b) } :
           Cardinality({ k \in 1..Len(a) : a[k] = r })
               = Cardinality({ k \in 1..Len(b) : b[k] = r })

\* The text once the loop of truncateTextByRanges has cut out the ranges
\* of the sorted array behind position k, the last one first.
AfterRemovals(s, sorted, k, off) ==
    truncateLoop(s, SubSeq(sorted, k + 1, Len(sorted)), Len(sorted) - k, off)

\* C27: after truncateTextByRanges the caller's array holds the ranges it
\* held before, with their start and end, in ascending order of start;
\* and with non-overlapping ranges that lie shifted inside the text, the
\* ranges are cut out from the largest start to the smallest, so that when
\* a range is about to be cut out the text up to its shifted end is still
\* the original text.
C27_SortsInPlaceAndCutsFromTheEnd ==
    op = "truncateTextByRanges" =>
        /\ AscendingByStart(ranges)
        /\ SameRanges(args.rangesBefore, ranges)
        /\ (NonOverlapping(args.rangesBefore)
               /\ ShiftedInside(text, args.rangesBefore, args.rangeOffset)) =>
               /\ retText = AfterRemovals(text, ranges, 0, args.rangeOffset)
               /\ \A k \in 1..Len(ranges) :
                      LET upTo == ranges[k].end + args.rangeOffset
                      IN  SubSeq(AfterRemovals(text, ranges, k, args.rangeOffset),
                                 1, upTo)
                              = SubSeq(text, 1, upTo)

\* truncateTextByRanges('ab00cde000x0000z', ranges) with the test's three
\* ranges handed over last one first: the array comes back in the order of
\* the test and 'abcdexz' is returned.
C27_Witness ==
    /\ op = "truncateTextByRanges"
    /\ text = TestTruncateText
    /\ args.rangesBefore = << TestRanges[3], TestRanges[1], TestRanges[2] >>
    /\ args.rangeOffset = 0
    /\ ranges = TestRanges
    /\ retText = << 97, 98, 99, 100, 101, 120, 122 >>

RECURSIVE SubstitutedOrDropped(_, _, _)
\* s from offset o on with each specifier replaced by the next value of
\* values, in order, as long as a value is left and dropped afterwards,
\* and every other code unit kept.
SubstitutedOrDropped(s, o, values) ==
    IF o >= Len(s) THEN << >>
    ELSE IF isSpecifierAt(s, o)
         THEN IF values = << >>
              THEN SubstitutedOrDropped(s, o + 2, values)
              ELSE toJoinedString(Head(values))
                       \o SubstitutedOrDropped(s, o + 2, Tail(values))
         ELSE << charCodeAt(s, o) >> \o SubstitutedOrDropped(s, o + 1, values)

\* C28: when the text has more specifiers than format gets values, the
\* k-th specifier is replaced by the k-th value as long as there is one and
\* every specifier behind the last value is removed from the output
\* (neither kept nor replaced by 'undefined'); when format gets more
\* values than the text has specifiers, the values behind the last
\* specifier do not appear. The code units outside the specifiers are kept
\* in both cases.
C28_SurplusSpecifiersDroppedSurplusValuesIgnored ==
    (op = "format" /\ Len(args.values) # Cardinality(SpecifierOffsets(text))) =>
        /\ retText = SubstitutedOrDropped(text, 0, args.values)
        /\ Len(args.values) > Cardinality(SpecifierOffsets(text)) =>
               retText =
                   Substituted(text, 0,
                       SubSeq(args.values, 1, Cardinality(SpecifierOffsets(text))))
        /\ args.values = << >> =>
               Len(retText) = Len(text) - 2 * Cardinality(SpecifierOffsets(text))

\* format('%s%d', 'x') returns 'x'.
C28_Witness ==
    /\ op = "format"
    /\ text = << 37, 115, 37, 100 >>
    /\ args.values = << Str(<< 120 >>) >>
    /\ retText = << 120 >>

====
